---- MODULE Spec2Model ----
(***************************************************************************)
(* Model of main.py of cdda-mods-utils: calculate_folder_size,             *)
(* convert_json_to_custom_yaml and find_folders_and_convert_json.          *)
(*                                                                         *)
(* Text is modelled by TLA+ strings, so a fragment is the very text the    *)
(* program builds.  A JSON value is a record [k, s, l, d, n]: k is its     *)
(* shape, s the text of a string, l the elements of a list (for a string:  *)
(* its lines, what str.splitlines() returns), d the key/value pairs of a   *)
(* mapping in document order, n the value of a number.                     *)
(***************************************************************************)
EXTENDS Integers, Sequences, FiniteSets, TLC

VARIABLES
    folders,           \* the mod folders of the root directory, in listing order
    file,              \* all_modinfo.yaml: [exists, text]
    pc,                \* "idle", "loop", "done" or "aborted" (uncaught exception)
    idx,               \* position of the for loop of line 126 in folders
    all_yaml_content,  \* the local variable of line 124
    yaml_content,      \* what the last call of line 130 returned or raised
    sizeCalls,         \* calculate_folder_size invocations made by that call
    stdout,            \* what print() wrote, one string per call
    runs,              \* runs of find_folders_and_convert_json started so far
    file0,             \* all_modinfo.yaml as it was when the current run started
    initial            \* all_modinfo.yaml as it was before the first run

vars == <<folders, file, pc, idx, all_yaml_content, yaml_content, sizeCalls,
          stdout, runs, file0, initial>>

\* ------------------------------------------------------------------ bounds
MaxFolders == 2
MaxItems == 2
MaxRuns == 2
MaxDepth == 2

\* ------------------------------------------------------------- JSON values
Absent == [k |-> "absent", s |-> "", l |-> <<>>, d |-> <<>>, n |-> 0]
Str(s) == [k |-> "str", s |-> s, l |-> IF s = "" THEN <<>> ELSE <<s>>, d |-> <<>>, n |-> 0]
List(l) == [k |-> "list", s |-> "", l |-> l, d |-> <<>>, n |-> 0]
Dict(d) == [k |-> "dict", s |-> "", l |-> <<>>, d |-> d, n |-> 0]
Num(n) == [k |-> "num", s |-> "", l |-> <<>>, d |-> <<>>, n |-> n]

RECURSIVE JoinWith(_, _)
JoinWith(sep, l) ==
    IF l = <<>> THEN ""
    ELSE IF Len(l) = 1 THEN l[1]
    ELSE l[1] \o sep \o JoinWith(sep, Tail(l))

\* A string of several lines: its text and its lines.
Text(lines) == [k |-> "str", s |-> JoinWith("\n", lines), l |-> lines, d |-> <<>>, n |-> 0]

Digits == <<"0", "1", "2", "3", "4", "5", "6", "7", "8", "9">>

RECURSIVE Dec(_)
Dec(n) == IF n < 10 THEN Digits[n + 1] ELSE Dec(n \div 10) \o Digits[(n % 10) + 1]

\* Python truth value of a JSON value (an absent key reads as its "" default).
Truthy(v) ==
    CASE v.k = "absent" -> FALSE
      [] v.k = "str" -> v.s # ""
      [] v.k = "list" -> v.l # <<>>
      [] v.k = "dict" -> v.d # <<>>
      [] v.k = "num" -> v.n # 0
      [] OTHER -> FALSE

Get(v, default) == IF v.k = "absent" THEN default ELSE v

\* ''.join([pre + x + post for x in l])
RECURSIVE Bullets(_, _, _)
Bullets(pre, post, l) ==
    IF l = <<>> THEN "" ELSE pre \o l[1] \o post \o Bullets(pre, post, Tail(l))

\* [f"{k}: {v}" for k, v in d.items()]
Pairs(d) == [i \in 1..Len(d) |-> d[i][1] \o ": " \o d[i][2]]

Keys(d) == [i \in 1..Len(d) |-> d[i][1]]

\* --------------------------------------------------- calculate_folder_size
\* The files of a folder are a set of [path, size], path relative to the folder.
IsUnder(f, dirpath) ==
    /\ Len(f.path) > Len(dirpath)
    /\ SubSeq(f.path, 1, Len(dirpath)) = dirpath

\* One step of os.walk: the filenames and the dirnames found at dirpath.
FilesIn(files, dirpath) ==
    {f \in files : IsUnder(f, dirpath) /\ Len(f.path) = Len(dirpath) + 1}

DirsIn(files, dirpath) ==
    {f.path[Len(dirpath) + 1] : f \in {g \in files : IsUnder(g, dirpath) /\ Len(g.path) > Len(dirpath) + 1}}

\* total_size += os.path.getsize(filepath) for each filename
RECURSIVE SumSizes(_)
SumSizes(fs) ==
    IF fs = {} THEN 0
    ELSE LET f == CHOOSE g \in fs : TRUE IN f.size + SumSizes(fs \ {f})

RECURSIVE WalkFrom(_, _)
RECURSIVE WalkDirs(_, _, _)
WalkDirs(files, dirpath, dirnames) ==
    IF dirnames = {} THEN 0
    ELSE LET dn == CHOOSE x \in dirnames : TRUE
         IN WalkFrom(files, Append(dirpath, dn)) + WalkDirs(files, dirpath, dirnames \ {dn})

\* The walk without its descent into subfolders.
WalkTopOnly(files, dirpath) == SumSizes(FilesIn(files, dirpath))

WalkFrom(files, dirpath) ==
    SumSizes(FilesIn(files, dirpath)) + WalkDirs(files, dirpath, DirsIn(files, dirpath))

calculate_folder_size(files) == WalkFrom(files, <<>>)

\* ----------------------------------------------- convert_json_to_custom_yaml
MOD_INFO == "MOD_INFO"

\* The filter without its name test.
PassesFilterAnyName(item) ==
    /\ Get(item.type, Str("")).k = "str"
    /\ Get(item.type, Str("")).s = MOD_INFO

\* lines 53-58: the entry is rendered iff its name is truthy and its type is MOD_INFO
PassesFilter(item) ==
    /\ Truthy(Get(item.name, Str("")))
    /\ Get(item.type, Str("")).k = "str"
    /\ Get(item.type, Str("")).s = MOD_INFO

\* lines 59-60
NameValue(item) ==
    IF item.name.k = "dict" THEN Str(JoinWith(" | ", Pairs(item.name.d))) ELSE item.name

\* lines 62-66
IdValue(item) ==
    LET v == Get(item.id, Get(item.ident, Str("unknown")))
    IN IF v.k = "str" THEN v
       ELSE IF v.k = "list" THEN Str(Bullets("    - ", "\n", v.l))
       ELSE v

\* Lines 68-73 with the bare string rendered as maintainers are.
AuthorsUnquoted(item) ==
    LET v == Get(item.authors, Str("unknown"))
    IN IF v.k = "str" THEN Str(Bullets("    - ", "\n", <<v.s>>))
       ELSE IF v.k = "list" THEN Str(Bullets("    - \"", "\"\n", v.l))
       ELSE v

\* lines 68-73
AuthorsValue(item) ==
    LET v == Get(item.authors, Str("unknown"))
    IN IF v.k = "str" THEN Str(Bullets("    - \"", "\"\n", <<v.s>>))
       ELSE IF v.k = "list" THEN Str(Bullets("    - \"", "\"\n", v.l))
       ELSE v

\* lines 75-80
MaintainersValue(item) ==
    LET v == Get(item.maintainers, Str("unknown"))
    IN IF v.k = "str" THEN Str(Bullets("    - ", "\n", <<v.s>>))
       ELSE IF v.k = "list" THEN Str(Bullets("    - ", "\n", v.l))
       ELSE v

\* lines 83-90
FormattedDescription(item) ==
    LET v == Get(item.description, Str("No description provided."))
    IN IF v.k = "str" THEN JoinWith("\n    ", v.l)
       ELSE IF v.k = "list" THEN JoinWith("\n    ", v.l)
       ELSE IF v.k = "dict" THEN JoinWith("\n    ", Pairs(v.d))
       ELSE ""

\* line 103
CategoryValue(item) == Get(item.category, Str("unknown"))

\* line 104: what iterating the dependencies value yields
DependenciesValue(item) ==
    LET v == Get(item.dependencies, List(<<>>))
    IN IF v.k = "list" THEN v
       ELSE IF v.k = "dict" THEN List(Keys(v.d))
       ELSE v

\* line 93
DownloadUrl(dirname) == "https://alist.doiiars.com/d/Public/Cataclysmdda/" \o dirname \o ".zip"

\* lines 98-104 raise TypeError when a value concatenated to the text is not a
\* string, or when the dependencies value cannot be iterated
RenderRaises(item) ==
    \/ IdValue(item).k # "str"
    \/ NameValue(item).k # "str"
    \/ AuthorsValue(item).k # "str"
    \/ MaintainersValue(item).k # "str"
    \/ CategoryValue(item).k # "str"
    \/ DependenciesValue(item).k # "list"

\* lines 97-107
Fragment(item, dirname, folder_size) ==
    "- type: direct_download\n"
    \o "  ident: \"" \o IdValue(item).s \o "\"\n"
    \o "  name: \"" \o NameValue(item).s \o "\"\n"
    \o "  authors: \n" \o AuthorsValue(item).s
    \o "  maintainers: \n" \o MaintainersValue(item).s
    \o "  description: |\n    " \o FormattedDescription(item) \o "\n"
    \o "  category: '" \o CategoryValue(item).s \o "'\n"
    \o "  dependencies:\n" \o Bullets("    - '", "'\n", DependenciesValue(item).l)
    \o "  size: " \o Dec(folder_size) \o "\n"
    \o "  url: \"" \o DownloadUrl(dirname) \o "\"\n"
    \o "  homepage: 'https://github.com/Kenan2000/CDDA-Structured-Kenan-Modpack'"

\* The state of one call: raised (an exception left the function), text
\* (yaml_contents) and calls (calculate_folder_size invocations so far).
Returned(text, calls) == [raised |-> FALSE, text |-> text, calls |-> calls]
Raised(calls) == [raised |-> TRUE, text |-> "", calls |-> calls]

\* The loop body appending to yaml_contents where line 97 assigns.
LoopBodyAppending(acc, item, folder) ==
    IF acc.raised THEN acc
    ELSE IF ~item.rec THEN Raised(acc.calls)
    ELSE IF ~PassesFilter(item) THEN acc
    ELSE IF RenderRaises(item) THEN Raised(acc.calls + 1)
    ELSE Returned(acc.text \o Fragment(item, folder.name, calculate_folder_size(folder.files)),
                  acc.calls + 1)

\* The loop body with the size computed once per folder and reused.
LoopBodySizeOnce(acc, item, folder) ==
    IF acc.raised THEN acc
    ELSE IF ~item.rec THEN Raised(acc.calls)
    ELSE IF ~PassesFilter(item) THEN acc
    ELSE IF RenderRaises(item) THEN Raised(1)
    ELSE Returned(Fragment(item, folder.name, calculate_folder_size(folder.files)), 1)

\* One iteration of the loop of line 51.
LoopBody(acc, item, folder) ==
    IF acc.raised THEN acc
    ELSE IF ~item.rec THEN Raised(acc.calls)                          \* line 53: item.get
    ELSE IF ~PassesFilter(item) THEN acc                              \* lines 54-58
    ELSE IF RenderRaises(item) THEN Raised(acc.calls + 1)             \* lines 95, 98-104
    ELSE Returned(Fragment(item, folder.name, calculate_folder_size(folder.files)),
                  acc.calls + 1)

RECURSIVE ForEachItem(_, _, _)
ForEachItem(acc, items, folder) ==
    IF items = <<>> THEN acc
    ELSE ForEachItem(LoopBody(acc, Head(items), folder), Tail(items), folder)

\* The function raising where line 111 prints.
ConvertRejectingNotList(folder) ==
    CASE folder.desc.kind = "list" ->
            ForEachItem(Returned("", 0), folder.desc.items, folder)
      [] OTHER -> Raised(0)

\* The whole function, for the folder whose modinfo.json holds folder.desc.
convert_json_to_custom_yaml(folder) ==
    CASE folder.desc.kind = "notjson" -> Raised(0)                    \* line 46
      [] folder.desc.kind = "list" ->
            ForEachItem(Returned("", 0), folder.desc.items, folder)   \* lines 48-109
      [] OTHER -> Returned("", 0)                                     \* lines 110-112

\* ------------------------------------------------------------------ inputs
Item(type, name, id, ident, authors, maintainers, description, category, dependencies) ==
    [rec |-> TRUE, type |-> type, name |-> name, id |-> id, ident |-> ident,
     authors |-> authors, maintainers |-> maintainers, description |-> description,
     category |-> category, dependencies |-> dependencies]

\* An array element that is not a record (a bare string, say).
NonRecord ==
    [rec |-> FALSE, type |-> Absent, name |-> Absent, id |-> Absent, ident |-> Absent,
     authors |-> Absent, maintainers |-> Absent, description |-> Absent,
     category |-> Absent, dependencies |-> Absent]

Alice ==
    Item(Str(MOD_INFO), Str("Test"), Str("test_id"), Absent, Str("Alice"), Str("Bob"),
         Text(<<"line one", "line two">>), Str("misc"), List(<<"dda">>))

Minimal ==
    Item(Str(MOD_INFO), Str("Min"), Absent, Absent, Absent, Absent, Absent, Absent, Absent)

Lists ==
    Item(Str(MOD_INFO), Str("Lists"), Absent, Str("old_ident"), List(<<"X", "Y">>),
         List(<<"M">>), List(<<"d1", "d2">>), Str("items"), List(<<"a", "b">>))

Mappings ==
    Item(Str(MOD_INFO), Dict(<< <<"str", "Named">>, <<"ctxt", "mod">> >>),
         List(<<"i1", "i2">>), Str("ignored"), List(<<>>), Str("Solo"),
         Dict(<< <<"str", "Described">> >>), Str("misc"), List(<<>>))

WellShapedItems == {Alice, Minimal, Lists, Mappings}

NotQualifying ==
    { [Alice EXCEPT !.type = Str("ITEM")],
      [Alice EXCEPT !.type = Absent],
      [Lists EXCEPT !.name = Absent],
      [Lists EXCEPT !.name = Str("")],
      [Alice EXCEPT !.type = Str("ITEM"), !.category = Num(3)] }

\* Entries that pass the filter of lines 53-58 and hold a field of a shape the
\* descriptor format does not name.
OddlyShaped ==
    { [Alice EXCEPT !.category = Num(3)],
      [Minimal EXCEPT !.id = Num(7)],
      [Lists EXCEPT !.authors = Dict(<< <<"name", "X">> >>)],
      [Minimal EXCEPT !.name = Num(5)],
      [Minimal EXCEPT !.dependencies = Num(1)],
      [Minimal EXCEPT !.dependencies = Dict(<< <<"dda", "1">> >>)] }

Items == WellShapedItems \cup NotQualifying \cup OddlyShaped \cup {NonRecord}

SeqsUpTo(S, n) == UNION {[1..m -> S] : m \in 0..n}

\* The content of modinfo.json.
NoDescriptor == [kind |-> "none", items |-> <<>>]
NotJson == [kind |-> "notjson", items |-> <<>>]
NotList == [kind |-> "notlist", items |-> <<>>]
Array(items) == [kind |-> "list", items |-> items]

File(path, size) == [path |-> path, size |-> size]

RECURSIVE Pow10(_)
Pow10(e) == IF e = 0 THEN 1 ELSE 10 * Pow10(e - 1)

DirChain(depth) == [i \in 1..depth |-> "d" \o Dec(i)]

ModinfoJson == File(<<"modinfo.json">>, 120)

\* Files a mod folder may hold besides its descriptor, down to MaxDepth levels.
OtherFiles ==
    {File(<<"readme.txt">>, 0)}
    \cup {File(DirChain(d) \o <<"data.json">>, 3 * Pow10(d)) : d \in 0..MaxDepth}

FolderNames == <<"TestMod", "Aftershock", "No_Hope", "Magiclysm", "Xedra">>

Folder(name, files, desc) == [name |-> name, files |-> files, desc |-> desc]

\* One mod folder, every descriptor of up to MaxItems entries.
AnyDescriptorFolders ==
    {Folder(FolderNames[1], {ModinfoJson, File(<<"d1", "data.json">>, 1114)}, Array(items)) :
        items \in SeqsUpTo(Items, MaxItems)}

\* One mod folder, every file tree.
AnyTreeFolders ==
    {Folder(FolderNames[1], fs \cup {ModinfoJson}, Array(<<it>>)) :
        fs \in SUBSET OtherFiles, it \in {Minimal, [Alice EXCEPT !.type = Str("ITEM")]}}
    \cup {Folder(FolderNames[1], fs, NoDescriptor) : fs \in SUBSET OtherFiles}

\* What a folder among several may hold.
SomeContents ==
    { <<{File(<<"notes.txt">>, 9)}, NoDescriptor>>,
      <<{ModinfoJson}, NotJson>>,
      <<{ModinfoJson}, NotList>>,
      <<{ModinfoJson}, Array(<<>>)>>,
      <<{ModinfoJson}, Array(<<[Alice EXCEPT !.type = Str("ITEM")]>>)>>,
      <<{ModinfoJson, File(<<"d1", "data.json">>, 1114)}, Array(<<Alice>>)>>,
      <<{ModinfoJson}, Array(<<Minimal, [Lists EXCEPT !.name = Str("")]>>)>>,
      <<{ModinfoJson}, Array(<<Lists, Mappings>>)>>,
      <<{ModinfoJson}, Array(<<[Alice EXCEPT !.category = Num(3)]>>)>>,
      <<{ModinfoJson}, Array(<<Minimal, NonRecord>>)>> }

SeveralFolders ==
    {[i \in 1..m |-> Folder(FolderNames[i], c[i][1], c[i][2])] :
        m \in 0..MaxFolders, c \in [1..MaxFolders -> SomeContents]}

Listings ==
    {<<f>> : f \in AnyDescriptorFolders \cup AnyTreeFolders} \cup SeveralFolders

Absentfile == [exists |-> FALSE, text |-> ""]
OutputFiles == {Absentfile, [exists |-> TRUE, text |-> "# kept\n"]}

\* ------------------------------------------------------------------- state
Init ==
    /\ folders \in Listings
    /\ file \in OutputFiles
    /\ pc = "idle"
    /\ idx = 0
    /\ all_yaml_content = ""
    /\ yaml_content = ""
    /\ sizeCalls = 0
    /\ stdout = <<>>
    /\ runs = 0
    /\ file0 = file
    /\ initial = file

\* os.path.exists(json_file_path), line 129
HasDescriptor(folder) == \E f \in folder.files : f.path = <<"modinfo.json">>

\* lines 121-124 (and a new process for every run after the first)
StartRun ==
    /\ pc \in {"idle", "done", "aborted"}
    /\ runs < MaxRuns
    /\ pc' = "loop"
    /\ idx' = 1
    /\ all_yaml_content' = ""
    /\ yaml_content' = ""
    /\ sizeCalls' = 0
    /\ runs' = runs + 1
    /\ file0' = file
    /\ UNCHANGED <<folders, file, stdout, initial>>

\* lines 126-129, no modinfo.json in the folder
SkipFolder ==
    /\ pc = "loop"
    /\ idx <= Len(folders)
    /\ ~HasDescriptor(folders[idx])
    /\ idx' = idx + 1
    /\ UNCHANGED <<folders, file, pc, all_yaml_content, yaml_content, sizeCalls,
                   stdout, runs, file0, initial>>

\* The loop writing each fragment to the file as soon as it has it.
ConvertFolderWriting ==
    /\ pc = "loop"
    /\ idx <= Len(folders)
    /\ HasDescriptor(folders[idx])
    /\ LET r == convert_json_to_custom_yaml(folders[idx])
       IN /\ ~r.raised
          /\ yaml_content' = r.text
          /\ sizeCalls' = r.calls
          /\ all_yaml_content' = all_yaml_content
          /\ file' =
                IF r.text # "" THEN [exists |-> TRUE, text |-> file.text \o r.text \o "\n\n"]
                ELSE file
          /\ stdout' =
                IF folders[idx].desc.kind = "list" THEN stdout
                ELSE Append(stdout, "bad format: " \o folders[idx].name \o "/modinfo.json")
    /\ idx' = idx + 1
    /\ UNCHANGED <<folders, pc, runs, file0, initial>>

\* Line 132 without its separator.
ConvertFolderNoSeparator ==
    /\ pc = "loop"
    /\ idx <= Len(folders)
    /\ HasDescriptor(folders[idx])
    /\ LET r == convert_json_to_custom_yaml(folders[idx])
       IN /\ ~r.raised
          /\ yaml_content' = r.text
          /\ sizeCalls' = r.calls
          /\ all_yaml_content' = all_yaml_content \o r.text
          /\ stdout' =
                IF folders[idx].desc.kind = "list" THEN stdout
                ELSE Append(stdout, "bad format: " \o folders[idx].name \o "/modinfo.json")
    /\ idx' = idx + 1
    /\ UNCHANGED <<folders, file, pc, runs, file0, initial>>

\* lines 126-132, the call of line 130 returns
ConvertFolder ==
    /\ pc = "loop"
    /\ idx <= Len(folders)
    /\ HasDescriptor(folders[idx])
    /\ LET r == convert_json_to_custom_yaml(folders[idx])
       IN /\ ~r.raised
          /\ yaml_content' = r.text
          /\ sizeCalls' = r.calls
          /\ all_yaml_content' =
                IF r.text # "" THEN all_yaml_content \o r.text \o "\n\n"
                ELSE all_yaml_content
          /\ stdout' =
                IF folders[idx].desc.kind = "list" THEN stdout
                ELSE Append(stdout, "bad format: " \o folders[idx].name \o "/modinfo.json")
    /\ idx' = idx + 1
    /\ UNCHANGED <<folders, file, pc, runs, file0, initial>>

\* lines 126-130, the call of line 130 raises: nothing catches the exception
\* and the process ends with a traceback
ConvertRaises ==
    /\ pc = "loop"
    /\ idx <= Len(folders)
    /\ HasDescriptor(folders[idx])
    /\ LET r == convert_json_to_custom_yaml(folders[idx])
       IN /\ r.raised
          /\ sizeCalls' = r.calls
    /\ pc' = "aborted"
    /\ UNCHANGED <<folders, file, idx, all_yaml_content, yaml_content, stdout, runs,
                   file0, initial>>

\* Line 136 opening the file in mode 'w'.
WriteOutputTruncating ==
    /\ pc = "loop"
    /\ idx > Len(folders)
    /\ all_yaml_content # ""
    /\ file' = [exists |-> TRUE, text |-> all_yaml_content]
    /\ stdout' = Append(stdout, "appended to all_modinfo.yaml")
    /\ pc' = "done"
    /\ UNCHANGED <<folders, idx, all_yaml_content, yaml_content, sizeCalls, runs, file0,
                   initial>>

\* lines 134-138
WriteOutput ==
    /\ pc = "loop"
    /\ idx > Len(folders)
    /\ all_yaml_content # ""
    /\ file' = [exists |-> TRUE, text |-> file.text \o all_yaml_content]
    /\ stdout' = Append(stdout, "appended to all_modinfo.yaml")
    /\ pc' = "done"
    /\ UNCHANGED <<folders, idx, all_yaml_content, yaml_content, sizeCalls, runs, file0,
                   initial>>

\* lines 139-140
NothingToWrite ==
    /\ pc = "loop"
    /\ idx > Len(folders)
    /\ all_yaml_content = ""
    /\ stdout' = Append(stdout, "no modinfo.json found")
    /\ pc' = "done"
    /\ UNCHANGED <<folders, file, idx, all_yaml_content, yaml_content, sizeCalls,
                   runs, file0, initial>>

Next ==
    \/ StartRun
    \/ SkipFolder
    \/ ConvertFolder
    \/ ConvertRaises
    \/ WriteOutput
    \/ NothingToWrite

Spec == Init /\ [][Next]_vars

\* ============================================================== properties
\* Vocabulary of the descriptor format, stated apart from the code above.
IsRecordArray(desc) ==
    /\ desc.kind = "list"
    /\ \A i \in 1..Len(desc.items) : desc.items[i].rec

NonEmpty(v) == v.k # "absent" /\ v # Str("") /\ v # List(<<>>) /\ v # Dict(<<>>)

\* A qualifying entry: type equals MOD_INFO and name present and non-empty.
Qualifies(item) == item.rec /\ item.type = Str(MOD_INFO) /\ NonEmpty(item.name)

QualifyingAt(items) == {i \in 1..Len(items) : Qualifies(items[i])}

Highest(S) == CHOOSE i \in S : \A j \in S : j <= i
Lowest(S) == CHOOSE i \in S : \A j \in S : i <= j

LastQualifying(items) == items[Highest(QualifyingAt(items))]

\* The field shapes the descriptor format names.
RecognizedShapes(item) ==
    /\ item.name.k \in {"str", "dict"}
    /\ item.id.k \in {"absent", "str", "list"}
    /\ item.ident.k \in {"absent", "str", "list"}
    /\ item.authors.k \in {"absent", "str", "list"}
    /\ item.maintainers.k \in {"absent", "str", "list"}
    /\ item.description.k \in {"absent", "str", "list", "dict"}
    /\ item.category.k \in {"absent", "str"}
    /\ item.dependencies.k \in {"absent", "list"}

\* The call of line 130 has just returned for folders[idx - 1].
JustConverted == pc \in {"loop", "done"} /\ idx > 1 /\ HasDescriptor(folders[idx - 1])

\* What a folder adds to the output when its conversion returns.
Contribution(f) ==
    IF HasDescriptor(f) /\ f.desc.kind = "list" /\ QualifyingAt(f.desc.items) # {}
    THEN Fragment(LastQualifying(f.desc.items), f.name, calculate_folder_size(f.files)) \o "\n\n"
    ELSE ""

RECURSIVE ExpectedAppend(_)
ExpectedAppend(fs) ==
    IF fs = <<>> THEN "" ELSE Contribution(Head(fs)) \o ExpectedAppend(Tail(fs))

RECURSIVE Repeat(_, _)
Repeat(text, k) == IF k = 0 THEN "" ELSE text \o Repeat(text, k - 1)

\* The fragments of the folders whose conversion does not fail.
RECURSIVE GoodFragments(_)
GoodFragments(fs) ==
    IF fs = <<>> THEN ""
    ELSE LET r == IF HasDescriptor(Head(fs)) THEN convert_json_to_custom_yaml(Head(fs))
                  ELSE Returned("", 0)
         IN (IF r.raised \/ r.text = "" THEN "" ELSE r.text \o "\n\n")
            \o GoodFragments(Tail(fs))

\* C1: a failure while processing one folder's descriptor never aborts the run,
\* and a finished run has appended the fragments of every folder that has a
\* qualifying entry and converts.
C1_FolderFailureNeverAbortsRun ==
    /\ pc # "aborted"
    /\ pc = "done" => file.text = file0.text \o GoodFragments(folders)

\* C2: for a descriptor that is an array of records with at least one
\* qualifying entry, the call returns exactly the fragment rendered from the
\* last qualifying entry in array order; it does return when the qualifying
\* entries hold fields of the shapes the format names.
C2_LastQualifyingEntrySurvives ==
    \A i \in 1..Len(folders) :
        LET f == folders[i]
            q == QualifyingAt(f.desc.items)
        IN (IsRecordArray(f.desc) /\ q # {}) =>
              /\ (\A j \in q : RecognizedShapes(f.desc.items[j])) =>
                    ~(pc = "aborted" /\ idx = i)
              /\ (JustConverted /\ idx - 1 = i) =>
                    yaml_content = Fragment(LastQualifying(f.desc.items), f.name,
                                            calculate_folder_size(f.files))

C2_Witness ==
    /\ JustConverted
    /\ IsRecordArray(folders[idx - 1].desc)
    /\ LET items == folders[idx - 1].desc.items
       IN /\ Cardinality(QualifyingAt(items)) >= 2
          /\ items[Lowest(QualifyingAt(items))] # LastQualifying(items)
    /\ yaml_content # ""

\* C3: a run that produces fragments leaves the previous content of
\* all_modinfo.yaml in place and adds the fragment set after it; with the
\* folders unchanged, k finished runs leave k copies of the fragment set after
\* the content the file had before the first run.
C3_AppendNotOverwrite ==
    pc = "done" =>
        /\ all_yaml_content # "" =>
              file = [exists |-> TRUE, text |-> file0.text \o all_yaml_content]
        /\ file.text = initial.text \o Repeat(ExpectedAppend(folders), runs)
        /\ file.exists <=> (initial.exists \/ ExpectedAppend(folders) # "")

C3_Witness ==
    /\ pc = "done"
    /\ runs = 2
    /\ ~initial.exists
    /\ ExpectedAppend(folders) # ""
    /\ file.text = ExpectedAppend(folders) \o ExpectedAppend(folders)
    /\ file0.text = ExpectedAppend(folders)

\* C4: for a descriptor that is an array of records the call returns the empty
\* result iff no entry qualifies, and the loop then adds nothing to the output.
C4_EmptyIffNoneQualifies ==
    /\ [](\A i \in 1..Len(folders) :
            IsRecordArray(folders[i].desc) =>
               /\ (JustConverted /\ idx - 1 = i) =>
                     (yaml_content = "" <=> QualifyingAt(folders[i].desc.items) = {})
               /\ QualifyingAt(folders[i].desc.items) = {} =>
                     ~(pc = "aborted" /\ idx = i))
    /\ [][(/\ pc = "loop"
           /\ idx <= Len(folders)
           /\ IsRecordArray(folders[idx].desc)
           /\ QualifyingAt(folders[idx].desc.items) = {})
          => (/\ all_yaml_content' = all_yaml_content
              /\ yaml_content' = ""
              /\ file' = file
              /\ pc' = "loop")]_vars

C4_Witness ==
    /\ JustConverted
    /\ IsRecordArray(folders[idx - 1].desc)
    /\ Len(folders[idx - 1].desc.items) >= 2
    /\ QualifyingAt(folders[idx - 1].desc.items) = {}
    /\ yaml_content = ""

\* C5: when the top-level JSON value is not a sequence the call reports it and
\* returns the empty result: the folder adds nothing and the loop goes on to
\* the next folder.
C5_NotListSkippedAndContinued ==
    [][(/\ pc = "loop"
        /\ idx <= Len(folders)
        /\ folders[idx].desc.kind = "notlist")
       => (/\ pc' = "loop"
           /\ idx' = idx + 1
           /\ yaml_content' = ""
           /\ all_yaml_content' = all_yaml_content
           /\ file' = file
           /\ Len(stdout') = Len(stdout) + 1)]_vars

C5_Witness ==
    /\ pc = "done"
    /\ all_yaml_content # ""
    /\ \E i \in 1..(Len(folders) - 1) :
          /\ folders[i].desc.kind = "notlist"
          /\ folders[i + 1].desc.kind = "list"
          /\ Contribution(folders[i + 1]) # ""

C7_SizeIsWholeFolder ==
    (JustConverted /\ IsRecordArray(folders[idx - 1].desc)
       /\ Cardinality(QualifyingAt(folders[idx - 1].desc.items)) = 1) =>
        yaml_content = Fragment(LastQualifying(folders[idx - 1].desc.items),
                                folders[idx - 1].name,
                                SumSizes(folders[idx - 1].files))

C7_Witness ==
    /\ JustConverted
    /\ IsRecordArray(folders[idx - 1].desc)
    /\ Cardinality(QualifyingAt(folders[idx - 1].desc.items)) = 1
    /\ \E f \in folders[idx - 1].files : Len(f.path) = 3 /\ f.size > 0
    /\ \E f \in folders[idx - 1].files : Len(f.path) = 2 /\ f.size > 0
    /\ yaml_content # ""

\* C8: authors given as the bare string s renders as authors given as the
\* one-element list [s], and so does maintainers.
BareOrSingleton(v) ==
    IF v.k = "str" THEN List(<<v.s>>)
    ELSE IF v.k = "list" /\ Len(v.l) = 1 THEN Str(v.l[1])
    ELSE v

WithAuthors(f) ==
    [f EXCEPT !.desc.items =
        [i \in 1..Len(f.desc.items) |->
            [f.desc.items[i] EXCEPT !.authors = BareOrSingleton(@)]]]

WithMaintainers(f) ==
    [f EXCEPT !.desc.items =
        [i \in 1..Len(f.desc.items) |->
            [f.desc.items[i] EXCEPT !.maintainers = BareOrSingleton(@)]]]

C8_BareStringAsOneElementList ==
    (JustConverted /\ folders[idx - 1].desc.kind = "list") =>
        /\ convert_json_to_custom_yaml(WithAuthors(folders[idx - 1])) =
              Returned(yaml_content, sizeCalls)
        /\ convert_json_to_custom_yaml(WithMaintainers(folders[idx - 1])) =
              Returned(yaml_content, sizeCalls)

C8_Witness ==
    /\ JustConverted
    /\ IsRecordArray(folders[idx - 1].desc)
    /\ QualifyingAt(folders[idx - 1].desc.items) # {}
    /\ LastQualifying(folders[idx - 1].desc.items).authors = Str("Alice")
    /\ LastQualifying(folders[idx - 1].desc.items).maintainers = Str("Bob")
    /\ yaml_content # ""

Stops(items) ==
    {i \in 1..Len(items) :
        ~items[i].rec \/ (Qualifies(items[i]) /\ RenderRaises(items[i]))}

Reached(items) ==
    IF Stops(items) = {} THEN 1..Len(items) ELSE 1..Lowest(Stops(items))

C10_FileWrittenOnlyAfterLoop ==
    /\ pc \in {"loop", "aborted"} => file = file0
    /\ pc = "done" =>
          file = IF all_yaml_content = "" THEN file0
                 ELSE [exists |-> TRUE, text |-> file0.text \o all_yaml_content]

C10_Witness ==
    /\ pc = "aborted"
    /\ all_yaml_content # ""
    /\ file = file0
    /\ ~file.exists

====
